---- MODULE Spec2Model ----
(***************************************************************************)
(* A model of the Crix exchange adapter, CrixClient, of                    *)
(* catalyst/exchange/ccxt/crix_to_ccxt.py.                                 *)
(*                                                                         *)
(* The adapter is single-threaded and synchronous: every public operation  *)
(* is one action, which runs the whole handler, transport calls included.  *)
(* The transport's answers (a failure, or a sequence of native records)    *)
(* are the action's inputs.                                                *)
(*                                                                         *)
(* Strings the code takes apart (symbols) are sequences of one-character   *)
(* strings.  Python's None is the empty tuple None, and a value that may   *)
(* be None is Some(x) == <<x>>.  A dict is the sequence of its entries in  *)
(* insertion order, each [k |-> key, v |-> value], keys unique.            *)
(*                                                                         *)
(* Every operation takes a parameter wide: with wide = TRUE its inputs are *)
(* drawn from the larger sets, which the specifications of one group of    *)
(* operations use (SpecMarkets, SpecOrders, SpecReads); Spec runs every     *)
(* operation against every other and draws from the smaller sets.          *)
(*                                                                         *)
(* Every operation also takes a parameter timed.  With timed = TRUE the    *)
(* wall clock runs: time passes between operations and during the sleeps   *)
(* of the throttle, up to MaxAdvance (SpecThrottle).  With timed = FALSE   *)
(* the wall clock is held at one reading, as a frozen or stepped-back      *)
(* clock reads, which keeps the timestamps of the other specifications in  *)
(* a finite set.                                                           *)
(***************************************************************************)
EXTENDS Integers, Sequences, FiniteSets, TLC

VARIABLES
    markets,    \* self.markets: None, or Some(dict symbol -> market)
    tickers,    \* self.tickers: None, or Some(list of tickers)
    orders,     \* self.orders: dict id -> order record
    op,         \* the operation that ran last, with its arguments (and, of
                \* load_markets and fetch_markets, the cache it found)
    calls,      \* the transport calls that operation issued, in order
    err,        \* the exception it raised, "none" when it returned
    ret,        \* the value it returned (<< >> when it raised)
    lastRestRequestTimestamp,
                \* self.lastRestRequestTimestamp, in milliseconds (the code
                \* holds seconds with a fraction: 1000 here is its 1.0)
    clock,      \* what datetime.now() read last, in milliseconds
    throttled,  \* for each of calls: the reading of its throttle, the
                \* timestamp the throttle found, the milliseconds it slept,
                \* and the timestamp set after the call if it was answered
    failed      \* None, or if a call of the operation failed Some of the
                \* caches and the timestamp the operation started from

vars == <<markets, tickers, orders, op, calls, err, ret,
          lastRestRequestTimestamp, clock, throttled, failed>>

----------------------------------------------------------------------------
(* Bounds of the model. *)

MaxMarkets == 2
MaxTickers == 1
MaxOrders == 1
MaxTrades == 2
MaxSymbolLen == 4
MaxCandles == 1

\* The timestamps (seconds) the platform's datetime can represent.
MinEpoch == 0
MaxEpoch == 2000000000

\* The milliseconds the running clock of SpecThrottle advances at most.
MaxAdvance == 4000

----------------------------------------------------------------------------
(* Values. *)

None == << >>
Some(x) == << x >>

SeqUpTo(S, n) == UNION { [1..k -> S] : k \in 0..n }

\* bool(x) of a value that is None or a (possibly empty) dict or list.
Truthy(opt) == opt # None /\ Len(opt[1]) > 0

\* str.replace(old, new) for one-character old and new.
Replace(s, old, new) == [i \in 1..Len(s) |-> IF s[i] = old THEN new ELSE s[i]]

\* dict: key in d, d[key] = value, del d[key], list(d.keys()).
HasKey(d, key) == \E i \in 1..Len(d) : d[i].k = key
DictPut(d, key, value) ==
    IF HasKey(d, key)
    THEN [i \in 1..Len(d) |-> IF d[i].k = key THEN [k |-> key, v |-> value] ELSE d[i]]
    ELSE Append(d, [k |-> key, v |-> value])
DictDel(d, key) == SelectSeq(d, LAMBDA e : e.k # key)
Keys(d) == [i \in 1..Len(d) |-> d[i].k]

----------------------------------------------------------------------------
(* Symbol translation. *)

ccxt_to_crix_symbol(symbol) == Replace(symbol, "/", "_")

\* A mutant: the replacement of ccxt_to_crix_symbol, copied unchanged.
crix_to_ccxt_symbol_copied(symbol) == Replace(symbol, "/", "_")

crix_to_ccxt_symbol(symbol) == Replace(symbol, "_", "/")

to_array(value) == Keys(value)

----------------------------------------------------------------------------
(* The transport (crix.Client / crix.AuthorizedClient): what it may answer. *)
(* Throughout the module the fields of a record are written in one order,   *)
(* that of their first appearance in the module, which is not always the    *)
(* order of the keys of the dict in the source.                             *)

Fail == [ok |-> FALSE, data |-> << >>]
Ok(data) == [ok |-> TRUE, data |-> data]
\* One transport call: the endpoint, its arguments, whether it succeeded and
\* what it answered.
Call(ep, arg, r) == [ok |-> r.ok, ep |-> ep, arg |-> arg, resp |-> r.data]

BaseAssets(wide) == IF wide THEN { <<"A">>, <<"B">> } ELSE { <<"A">> }
QuoteAssets == { <<"C">> }
NativeMarkets(wide) ==
    { [name |-> b \o q, base |-> b, quote |-> q] : b \in BaseAssets(wide), q \in QuoteAssets }
MarketResponses(wide) ==
    {Fail} \cup { Ok(s) : s \in SeqUpTo(NativeMarkets(wide), IF wide THEN MaxMarkets ELSE 1) }
\* The transport answers only the calls that are issued: the markets call is
\* issued only on a cache that is None or empty.
MarketAnswers(wide) == IF Truthy(markets) THEN {Fail} ELSE MarketResponses(wide)

----------------------------------------------------------------------------
(* The rate limit.  Every transport call of the adapter is issued the same  *)
(* way: `if self.enableRateLimit: self.throttle()`, the call, and after it   *)
(* `self.lastRestRequestTimestamp = datetime.now().timestamp()`, which a     *)
(* call that raises does not reach.                                          *)

enableRateLimit == TRUE
rateLimit == 1000

\* throttle(): the milliseconds it sleeps, read at now with the timestamp
\* last.  The code has now and the timestamp in seconds, so its elapsed is
\* (now - last) / 1000 of the milliseconds here; it compares these seconds
\* with rateLimit, subtracts them from rateLimit, and sleeps delay / 1000.0
\* seconds, which is delay milliseconds (a sleep ends on a whole one).
throttle(now, last) ==
    LET elapsed == now - last
    IN IF elapsed < rateLimit * 1000
       THEN rateLimit - (elapsed \div 1000)
       ELSE 0

\* A mutant: the timestamp is set before the call is issued.
RECURSIVE stamp_calls_early(_, _, _, _, _)
stamp_calls_early(cs, last, now, runs, acc) ==
    IF cs = << >> THEN [clock |-> now, throttled |-> acc, last |-> last]
    ELSE LET slept == IF enableRateLimit THEN throttle(now, last) ELSE 0
             after == IF runs THEN now + slept ELSE now
         IN stamp_calls_early(Tail(cs), after, after, runs,
                Append(acc, [now |-> now, last |-> last, slept |-> slept,
                             stamp |-> IF Head(cs).ok THEN Some(after) ELSE None]))

\* The calls cs of an operation, timed: the first throttle reads now, a
\* sleep is over at now + slept if the clock runs, a call takes no whole
\* millisecond, and an answered call sets the timestamp.
RECURSIVE stamp_calls(_, _, _, _, _)
stamp_calls(cs, last, now, runs, acc) ==
    IF cs = << >> THEN [clock |-> now, throttled |-> acc, last |-> last]
    ELSE LET slept == IF enableRateLimit THEN throttle(now, last) ELSE 0
             after == IF runs THEN now + slept ELSE now
         IN stamp_calls(Tail(cs), IF Head(cs).ok THEN after ELSE last, after, runs,
                Append(acc, [now |-> now, last |-> last, slept |-> slept,
                             stamp |-> IF Head(cs).ok THEN Some(after) ELSE None]))

\* The first reading of the clock, from the time of fetch_ohlcv.
ClockStart == CHOOSE t \in { n * 1000 : n \in {2000000} } : TRUE

\* The milliseconds between two operations: none, or two seconds.
Gaps(timed) == IF timed THEN {0, 2000} ELSE {0}

\* What an operation that issued the calls cs leaves of the time: the
\* timestamp, the clock, the sleeps, and what it started from if a call
\* failed.
Settle(cs, timed) ==
    \E gap \in Gaps(timed) :
    \E s \in {stamp_calls(cs, lastRestRequestTimestamp, clock + gap, timed, << >>)} :
        /\ s.clock <= ClockStart + MaxAdvance
        /\ lastRestRequestTimestamp' = s.last
        /\ clock' = s.clock
        /\ throttled' = s.throttled
        /\ failed' = IF \E i \in 1..Len(cs) : ~cs[i].ok
                     THEN Some([markets |-> markets, tickers |-> tickers, orders |-> orders,
                                lastRestRequestTimestamp |-> lastRestRequestTimestamp])
                     ELSE None

----------------------------------------------------------------------------
(* load_markets and fetch_markets. *)

RECURSIVE build_markets(_, _)
\* The loop of load_markets over the response, from item i on, into dict acc.
build_markets(req, acc) ==
    IF req = << >> THEN acc
    ELSE LET item == Head(req)
             symbol == item.base \o <<"/">> \o item.quote
         IN build_markets(Tail(req),
                DictPut(acc, symbol,
                    [symbol |-> symbol, base |-> item.base,
                     quote |-> item.quote, id |-> item.name]))

\* A mutant: the call is tried a second time.
load_markets_retried(r) ==
    IF r.ok
    THEN [markets |-> Some(build_markets(r.data, << >>)),
          calls |-> <<Call("fetch_markets", None, r), Call("fetch_markets", None, r)>>,
          err |-> "none",
          ret |-> build_markets(r.data, << >>)]
    ELSE [markets |-> markets,
          calls |-> <<Call("fetch_markets", None, r), Call("fetch_markets", None, r)>>,
          err |-> "TransportError", ret |-> None]

\* A mutant: the response is entered into the cache that is there.
load_markets_merged(r) ==
    LET old == IF markets = None THEN << >> ELSE markets[1]
    IN IF r.ok
       THEN [markets |-> Some(build_markets(r.data, old)),
             calls |-> <<Call("fetch_markets", None, r)>>, err |-> "none",
             ret |-> build_markets(r.data, old)]
       ELSE [markets |-> markets, calls |-> <<Call("fetch_markets", None, r)>>,
             err |-> "TransportError", ret |-> None]

\* load_markets() with the transport answering r: the calls issued, the
\* exception raised, the new cache and the value returned.
load_markets_run(r) ==
    IF r.ok
    THEN [markets |-> Some(build_markets(r.data, << >>)),
          calls |-> <<Call("fetch_markets", None, r)>>, err |-> "none",
          ret |-> build_markets(r.data, << >>)]
    ELSE [markets |-> markets, calls |-> <<Call("fetch_markets", None, r)>>,
          err |-> "TransportError", ret |-> None]

\* A mutant: the cache is not looked at.
fetch_markets_uncached(r) ==
    LET l == load_markets_run(r)
    IN IF l.err # "none" THEN l
       ELSE [l EXCEPT !.ret = to_array(l.ret)]

\* fetch_markets() with the transport answering r if it is asked.
fetch_markets_run(r) ==
    IF Truthy(markets)
    THEN [markets |-> markets, calls |-> << >>, err |-> "none",
          ret |-> to_array(markets[1])]
    ELSE LET l == load_markets_run(r)
         IN IF l.err # "none" THEN l
            ELSE [l EXCEPT !.ret = to_array(l.ret)]

load_markets(wide, timed) ==
    \E r \in MarketResponses(wide) :
        \E l \in {load_markets_run(r)} :
           /\ Settle(l.calls, timed)
           /\ op' = [name |-> "load_markets", before |-> markets]
           /\ markets' = l.markets
           /\ calls' = l.calls
           /\ err' = l.err
           /\ ret' = l.ret
           /\ UNCHANGED <<tickers, orders>>

fetch_markets(wide, timed) ==
    \E r \in MarketAnswers(wide) :
        \E l \in {fetch_markets_run(r)} :
           /\ Settle(l.calls, timed)
           /\ op' = [name |-> "fetch_markets", before |-> markets]
           /\ markets' = l.markets
           /\ calls' = l.calls
           /\ err' = l.err
           /\ ret' = l.ret
           /\ UNCHANGED <<tickers, orders>>

----------------------------------------------------------------------------
(* fetch_ohlcv.  A datetime is a number of seconds since the epoch; floats  *)
(* are the integers they hold.                                             *)

\* self.timeframes: the tokens that have a native resolution.
timeframes == {"1m", "5m", "15m", "30m", "1h", "2h", "4h", "1d"}

\* A mutant: every limit up to the largest passes.
valid_limits_unchecked == 0..1000

valid_limits == {1, 5, 10, 20, 50, 100, 500, 1000}

\* The if-chain of generate_ohlcv_start_time: total_minutes per unit of limit.
timeframe_minutes(timeframe) ==
    CASE timeframe = "1m" -> 1
      [] timeframe = "5m" -> 5
      [] timeframe = "15m" -> 15
      [] timeframe = "30m" -> 30
      [] timeframe = "1h" -> 60
      [] timeframe = "2h" -> 60 * 2
      [] timeframe = "4h" -> 60 * 4
      [] timeframe = "1d" -> 60 * 24

\* days, hours, minutes of a number of minutes.
get_min_hr_day(total_time) ==
    LET hours == total_time \div 60
        days == hours \div 24
        minutes == total_time % 60
    IN <<days, hours, minutes>>

\* timedelta(days, hours, minutes), in seconds.
timedelta(days, hours, minutes) == days * 86400 + hours * 3600 + minutes * 60

generate_ohlcv_start_time(now, timeframe, limit) ==
    LET total_minutes == limit * timeframe_minutes(timeframe)
        dhm == get_min_hr_day(total_minutes)
        delta_to_sustract == timedelta(dhm[1], dhm[2], dhm[3])
    IN now - delta_to_sustract

\* datetime.fromtimestamp(x) succeeds on the timestamps the platform can
\* represent, and raises otherwise.
fromtimestamp_ok(x) == MinEpoch <= x /\ x <= MaxEpoch

\* What fromtimestamp raises on a timestamp it cannot represent depends on
\* the platform and on the value: OSError, or an error that is no OSError
\* (OverflowError, ValueError), for which OverflowError stands.
FromtimestampErrors == {"OSError", "OverflowError"}

NativeCandles == { [open_time |-> 60, open |-> 2, high |-> 4, low |-> 1, close |-> 3, volume |-> 7] }
CandleResponses == {Fail} \cup { Ok(s) : s \in SeqUpTo(NativeCandles, MaxCandles) }

\* The loop of fetch_ohlcv over the response.
ohlcv_rows(req) ==
    [i \in 1..Len(req) |->
        <<req[i].open_time * 1000, req[i].open, req[i].high, req[i].low,
          req[i].close, req[i].volume>>]

\* Lines 193-226 of fetch_ohlcv: the window, then the candle call.  pre is the
\* outcome of the cache load before it, e1 and e2 what fromtimestamp raises if
\* it fails on since and on since/1000.
ohlcv_fetch(pre, symbol, timeframe, since, limit, now, e1, e2, rc) ==
    LET utc_end_time == now
        req_symbol == ccxt_to_crix_symbol(symbol)
        send(start) ==
            LET c == Call("fetch_ohlcv",
                          [symbol |-> req_symbol, timeframe |-> timeframe,
                           limit |-> limit,
                           since |-> start, utc_end_time |-> utc_end_time], rc)
            IN IF rc.ok
               THEN [pre EXCEPT !.calls = Append(@, c), !.ret = ohlcv_rows(rc.data)]
               ELSE [pre EXCEPT !.calls = Append(@, c), !.err = "TransportError",
                                !.ret = None]
    IN IF since = None
       THEN send(generate_ohlcv_start_time(utc_end_time, timeframe, limit))
       ELSE IF fromtimestamp_ok(since[1]) THEN send(since[1])
       ELSE IF e1 # "OSError" THEN [pre EXCEPT !.err = e1, !.ret = None]
       ELSE IF fromtimestamp_ok(since[1] \div 1000) THEN send(since[1] \div 1000)
       ELSE [pre EXCEPT !.err = e2, !.ret = None]

\* fetch_ohlcv(symbol, timeframe, since, limit) at time now, the transport
\* answering rm to the markets call and rc to the candle call, if asked.
fetch_ohlcv_run(symbol, timeframe, since, limit, now, e1, e2, rm, rc) ==
    LET pre == IF Truthy(markets)
               THEN [markets |-> markets, calls |-> << >>, err |-> "none", ret |-> << >>]
               ELSE [load_markets_run(rm) EXCEPT !.ret = << >>]
    IN IF pre.err # "none" THEN [pre EXCEPT !.ret = None]
       ELSE IF timeframe \notin timeframes THEN [pre EXCEPT !.err = "KeyError", !.ret = None]
       ELSE IF limit \notin valid_limits THEN pre
       ELSE ohlcv_fetch(pre, symbol, timeframe, since, limit, now, e1, e2, rc)

SymbolArgs == { <<"A", "/", "C">> }
TimeframeArgs(wide) == IF wide THEN timeframes \cup {"3m"} ELSE {"1m", "3m"}
LimitArgs(wide) == IF wide THEN {1, 7, 1000} ELSE {1, 7}
SinceArgs(wide) ==
    IF wide THEN {None, Some(120), Some(MaxEpoch + 1000), Some(0 - 1000)}
    ELSE {None, Some(0 - 1000)}
Nows == {2000000}

\* fromtimestamp raises only where it fails, and the candle call is issued
\* only past the timeframe, the limit and the conversion of since.
Converts(timeframe, limit) == timeframe \in timeframes /\ limit \in valid_limits
FirstErrors(timeframe, since, limit) ==
    IF Converts(timeframe, limit) /\ since # None /\ ~fromtimestamp_ok(since[1])
    THEN FromtimestampErrors ELSE {"OSError"}
SecondErrors(timeframe, since, limit, e1) ==
    IF Converts(timeframe, limit) /\ since # None /\ ~fromtimestamp_ok(since[1])
       /\ e1 = "OSError" /\ ~fromtimestamp_ok(since[1] \div 1000)
    THEN FromtimestampErrors ELSE {"OSError"}
CandleAnswers(timeframe, since, limit, e1) ==
    IF Converts(timeframe, limit)
       /\ (since = None \/ fromtimestamp_ok(since[1])
           \/ (e1 = "OSError" /\ fromtimestamp_ok(since[1] \div 1000)))
    THEN CandleResponses ELSE {Fail}

fetch_ohlcv(wide, timed) ==
    \E symbol \in SymbolArgs, timeframe \in TimeframeArgs(wide), since \in SinceArgs(wide),
       limit \in LimitArgs(wide), now \in Nows, rm \in MarketAnswers(wide) :
    \E e1 \in FirstErrors(timeframe, since, limit) :
    \E e2 \in SecondErrors(timeframe, since, limit, e1),
       rc \in CandleAnswers(timeframe, since, limit, e1) :
        \E l \in {fetch_ohlcv_run(symbol, timeframe, since, limit, now, e1, e2, rm, rc)} :
           /\ Settle(l.calls, timed)
           /\ op' = [symbol |-> symbol, name |-> "fetch_ohlcv", now |-> now,
                     timeframe |-> timeframe, limit |-> limit, since |-> since]
           /\ markets' = l.markets
           /\ calls' = l.calls
           /\ err' = l.err
           /\ ret' = l.ret
           /\ UNCHANGED <<tickers, orders>>

----------------------------------------------------------------------------
(* Orders.  A number that may be None (a timestamp) is None or Some(n).     *)

Digits == <<"0", "1", "2", "3", "4", "5", "6", "7", "8", "9">>

RECURSIVE str(_)
\* str(n) of an integer n >= 0.
str(n) == IF n < 10 THEN <<Digits[n + 1]>> ELSE str(n \div 10) \o <<Digits[(n % 10) + 1]>>

IsNumeral(s) == Len(s) > 0 /\ \A i \in 1..Len(s) : \E d \in 1..10 : Digits[d] = s[i]
DigitValue(c) == (CHOOSE d \in 1..10 : Digits[d] = c) - 1
RECURSIVE int(_)
\* int(s) of a string of digits (on any other string int raises ValueError).
int(s) == IF Len(s) = 1 THEN DigitValue(s[1])
          ELSE int(SubSeq(s, 1, Len(s) - 1)) * 10 + DigitValue(s[Len(s)])

NativeOrders(wide) ==
    [id : IF wide THEN {1, 2} ELSE {1},
     status : IF wide THEN 0..3 ELSE {0, 3},
     symbol_name : { <<"A", "_", "C">> },
     is_buy : {TRUE},
     price : {3}, quantity : {5}, filled_quantity : {2}]

\* parse_order(order): the record, or the exception it raises.  No branch of
\* the status chain binds ord_status for a status outside 0, 1, 2, and line
\* 634 then reads an unbound local.
parse_order(order) ==
    LET ord_id == str(order.id)
        status == order.status
        symbol == crix_to_ccxt_symbol(order.symbol_name)
        side == IF order.is_buy THEN "buy" ELSE "sell"
        price == order.price
        amount == order.quantity
        filled == order.filled_quantity
        remaining == amount - filled
        cost == filled * price
    IN IF status \notin {0, 1, 2}
       THEN [err |-> "UnboundLocalError", rec |-> None]
       ELSE [err |-> "none",
             rec |-> [symbol |-> symbol,
                      id |-> ord_id,
                      status |-> CASE status = 0 -> "open"
                                   [] status = 1 -> "closed"
                                   [] status = 2 -> "canceled",
                      price |-> price,
                      side |-> side,
                      amount |-> amount,
                      filled |-> filled,
                      remaining |-> remaining,
                      datetime |-> None,
                      timestamp |-> None,
                      lastTradeTimestamp |-> None,
                      type |-> "limit",
                      trades |-> << >>,
                      fee |-> << >>,
                      info |-> order]]

\* item.get('timestamp', None)
get_timestamp(item) == IF "timestamp" \in DOMAIN item THEN item.timestamp ELSE None

\* `if timestamp:` of a timestamp that is None or a number.
timestamp_truthy(timestamp) == timestamp # None /\ timestamp[1] # 0

filter_array_by_since(array, since) ==
    SelectSeq(array,
        LAMBDA item :
            IF timestamp_truthy(get_timestamp(item))
            THEN get_timestamp(item)[1] >= since
            ELSE TRUE)

\* Lines 449-456: the symbols of a list request.  A symbol given is wrapped;
\* with none, fetch_markets() runs, the transport answering rm if it is asked.
request_symbols(symbol, rm) ==
    IF symbol # None
    THEN [markets |-> markets, calls |-> << >>, err |-> "none",
          ret |-> <<ccxt_to_crix_symbol(symbol[1])>>]
    ELSE LET l == fetch_markets_run(rm)
         IN IF l.err # "none" THEN l
            ELSE [l EXCEPT !.ret = [i \in 1..Len(l.ret) |-> ccxt_to_crix_symbol(l.ret[i])]]

RECURSIVE parse_orders(_, _, _, _)
\* The loop over the orders of a response: each is parsed and appended, and
\* with track (fetch_open_orders) entered in the order map if its id is not
\* there.  An exception of parse_order ends the loop where it stands.
parse_orders(req_orders, acc, map, track) ==
    IF req_orders = << >> THEN [orders |-> map, err |-> "none", ret |-> acc]
    ELSE LET parsed_order == parse_order(Head(req_orders))
         IN IF parsed_order.err # "none"
            THEN [orders |-> map, err |-> parsed_order.err, ret |-> None]
            ELSE parse_orders(Tail(req_orders), Append(acc, parsed_order.rec),
                    IF track /\ ~HasKey(map, parsed_order.rec.id)
                    THEN DictPut(map, parsed_order.rec.id, parsed_order.rec)
                    ELSE map,
                    track)

\* fetch_open_orders, fetch_closed_orders and fetch_orders: one body, the
\* endpoint ep, and only fetch_open_orders tracks what it parsed.
fetch_order_list_run(ep, symbol, since, limit, rm, r) ==
    LET pre == request_symbols(symbol, rm)
        c == Call(ep, [limit |-> limit, symbols |-> pre.ret], r)
        done == parse_orders(r.data, << >>, orders, ep = "fetch_open_orders")
    IN IF pre.err # "none"
       THEN [markets |-> pre.markets, orders |-> orders,
             calls |-> pre.calls, err |-> pre.err, ret |-> None]
       ELSE IF ~r.ok
       THEN [markets |-> pre.markets, orders |-> orders,
             calls |-> Append(pre.calls, c), err |-> "TransportError", ret |-> None]
       ELSE [markets |-> pre.markets, orders |-> done.orders,
             calls |-> Append(pre.calls, c), err |-> done.err,
             ret |-> IF done.err # "none" THEN None
                     ELSE IF since # None THEN filter_array_by_since(done.ret, since[1])
                     ELSE done.ret]

OrderResponses(wide) == {Fail} \cup { Ok(s) : s \in SeqUpTo(NativeOrders(wide), MaxOrders) }
OptSymbolArgs == {None} \cup { Some(s) : s \in SymbolArgs }
OrderSinceArgs == {None, Some(1500)}
\* limit=int(1000), the default of the list operations.
DefaultLimit == 1000

\* The markets call of a list operation is issued only for no symbol.
ListMarketAnswers(symbol) == IF symbol = None THEN MarketAnswers(FALSE) ELSE {Fail}
\* The list call is issued unless the markets call before it failed.
ListAnswers(symbol, rm, R) ==
    IF symbol = None /\ ~Truthy(markets) /\ ~rm.ok THEN {Fail} ELSE R

fetch_order_list(ep, wide, timed) ==
    \E symbol \in OptSymbolArgs, since \in OrderSinceArgs :
    \E rm \in ListMarketAnswers(symbol) :
    \E r \in ListAnswers(symbol, rm, OrderResponses(wide)) :
    \E l \in {fetch_order_list_run(ep, symbol, since, DefaultLimit, rm, r)} :
        /\ Settle(l.calls, timed)
        /\ op' = [symbol |-> symbol, name |-> ep, since |-> since]
        /\ markets' = l.markets
        /\ orders' = l.orders
        /\ calls' = l.calls
        /\ err' = l.err
        /\ ret' = l.ret
        /\ UNCHANGED tickers

fetch_open_orders(wide, timed) == fetch_order_list("fetch_open_orders", wide, timed)

fetch_closed_orders(wide, timed) == fetch_order_list("fetch_closed_orders", wide, timed)

fetch_orders(wide, timed) == fetch_order_list("fetch_orders", wide, timed)

----------------------------------------------------------------------------
(* cancel_order, fetch_order, create_order. *)

\* An order_id argument: an int n, or a string s.
IntId(n) == [n |-> n, s |-> << >>, isstr |-> FALSE]
StrId(s) == [n |-> 0, s |-> s, isstr |-> TRUE]
OrderIdArgs(wide) ==
    IF wide THEN {IntId(1), StrId(<<"2">>), StrId(<<"x">>)} ELSE {IntId(1), StrId(<<"x">>)}

\* Lines 421-429 and 506-514: a string id is converted with int(); one that
\* does not convert is reported and sent as it is.
convert_order_id(order_id) ==
    IF order_id.isstr /\ IsNumeral(order_id.s) THEN IntId(int(order_id.s)) ELSE order_id

\* What the transport answers about one order: a failure, or the order of the
\* id asked for (any order, when the id it was sent is no number).
OneOrderResponses(order_id, wide) ==
    {Fail} \cup { Ok(o) : o \in { x \in NativeOrders(wide) : order_id.isstr \/ x.id = order_id.n } }

\* A mutant: a cancel empties the order map.
cancel_order_cleared(order_id, symbol, r) ==
    LET id == convert_order_id(order_id)
        c == Call("cancel_order", [symbol |-> ccxt_to_crix_symbol(symbol[1]), order_id |-> id], r)
        canceled_order == parse_order(r.data)
    IN IF symbol = None
       THEN [orders |-> orders, calls |-> << >>, err |-> "AttributeError", ret |-> None]
       ELSE IF ~r.ok
       THEN [orders |-> orders, calls |-> <<c>>, err |-> "TransportError", ret |-> None]
       ELSE IF canceled_order.err # "none"
       THEN [orders |-> orders, calls |-> <<c>>, err |-> canceled_order.err, ret |-> None]
       ELSE [orders |-> << >>, calls |-> <<c>>, err |-> "none", ret |-> canceled_order.rec]

cancel_order_run(order_id, symbol, r) ==
    LET id == convert_order_id(order_id)
        c == Call("cancel_order", [symbol |-> ccxt_to_crix_symbol(symbol[1]), order_id |-> id], r)
        canceled_order == parse_order(r.data)
    IN IF symbol = None
       THEN [orders |-> orders, calls |-> << >>, err |-> "AttributeError", ret |-> None]
       ELSE IF ~r.ok
       THEN [orders |-> orders, calls |-> <<c>>, err |-> "TransportError", ret |-> None]
       ELSE IF canceled_order.err # "none"
       THEN [orders |-> orders, calls |-> <<c>>, err |-> canceled_order.err, ret |-> None]
       ELSE [orders |-> IF HasKey(orders, canceled_order.rec.id)
                        THEN DictDel(orders, canceled_order.rec.id) ELSE orders, calls |-> <<c>>,
             err |-> "none",
             ret |-> canceled_order.rec]

fetch_order_run(order_id, symbol, r) ==
    LET id == convert_order_id(order_id)
        c == Call("fetch_order", [symbol |-> ccxt_to_crix_symbol(symbol[1]), order_id |-> id], r)
        parsed == parse_order(r.data)
    IN IF symbol = None
       THEN [orders |-> orders, calls |-> << >>, err |-> "AttributeError", ret |-> None]
       ELSE IF ~r.ok
       THEN [orders |-> orders, calls |-> <<c>>, err |-> "TransportError", ret |-> None]
       ELSE [orders |-> orders, calls |-> <<c>>, err |-> parsed.err, ret |-> parsed.rec]

\* The call is issued only for a symbol.
OneOrderAnswers(order_id, symbol, wide) ==
    IF symbol = None THEN {Fail} ELSE OneOrderResponses(convert_order_id(order_id), wide)

cancel_order(wide, timed) ==
    \E order_id \in OrderIdArgs(wide), symbol \in OptSymbolArgs :
    \E r \in OneOrderAnswers(order_id, symbol, wide) :
    \E l \in {cancel_order_run(order_id, symbol, r)} :
        /\ Settle(l.calls, timed)
        /\ op' = [symbol |-> symbol, name |-> "cancel_order", before |-> orders,
                  order_id |-> order_id]
        /\ orders' = l.orders
        /\ calls' = l.calls
        /\ err' = l.err
        /\ ret' = l.ret
        /\ UNCHANGED <<markets, tickers>>

fetch_order(wide, timed) ==
    \E order_id \in OrderIdArgs(wide), symbol \in OptSymbolArgs :
    \E r \in OneOrderAnswers(order_id, symbol, wide) :
    \E l \in {fetch_order_run(order_id, symbol, r)} :
        /\ Settle(l.calls, timed)
        /\ op' = [symbol |-> symbol, name |-> "fetch_order", order_id |-> order_id]
        /\ orders' = l.orders
        /\ calls' = l.calls
        /\ err' = l.err
        /\ ret' = l.ret
        /\ UNCHANGED <<markets, tickers>>

\* The names the module binds at line 390: it imports Resolution and NewOrder
\* from crix.models, and TimeInForce is not among its globals.
TimeInForceBound == FALSE

\* create_order(symbol, type, side, amount, price, params): the default of
\* params.get('time_in_force', TimeInForce.good_till_cancel) is evaluated on
\* every call, after Decimal(price), which raises TypeError on price=None.
create_order_run(symbol, price, r) ==
    LET c == Call("create_order", [symbol |-> ccxt_to_crix_symbol(symbol), price |-> price], r)
        created == [id |-> str(r.data.id), info |-> r.data]
    IN IF price = None
       THEN [orders |-> orders, calls |-> << >>, err |-> "TypeError", ret |-> None]
       ELSE IF ~TimeInForceBound
       THEN [orders |-> orders, calls |-> << >>, err |-> "NameError", ret |-> None]
       ELSE IF ~r.ok
       THEN [orders |-> orders, calls |-> <<c>>, err |-> "TransportError", ret |-> None]
       ELSE [orders |-> DictPut(orders, created.id, created), calls |-> <<c>>,
             err |-> "none", ret |-> created]

CreateAnswers(price, wide) ==
    IF price # None /\ TimeInForceBound
    THEN {Fail} \cup { Ok(o) : o \in NativeOrders(wide) } ELSE {Fail}

create_order(wide, timed) ==
    \E symbol \in SymbolArgs, price \in {None, Some(3)} :
    \E r \in CreateAnswers(price, wide) :
    \E l \in {create_order_run(symbol, price, r)} :
        /\ Settle(l.calls, timed)
        /\ op' = [symbol |-> symbol, name |-> "create_order", price |-> price]
        /\ orders' = l.orders
        /\ calls' = l.calls
        /\ err' = l.err
        /\ ret' = l.ret
        /\ UNCHANGED <<markets, tickers>>

----------------------------------------------------------------------------
(* fetch_my_trades, fetch_tickers, fetch_ticker, fetch_order_book and       *)
(* fetch_balance.  The 'datetime' texts of trades and order books are left  *)
(* out of the records.                                                     *)

NativeTrades(wide) ==
    [id : {7},
     symbol_name : { <<"A", "_", "C">> },
     is_buy : {TRUE},
     price : {3},
     quantity : {5}, created_at : IF wide THEN {0, 2} ELSE {0},
     is_buy_order_filled : IF wide THEN BOOLEAN ELSE {TRUE},
     is_sell_order_filled : {FALSE}]

\* The body of the loop of fetch_my_trades.
parse_trade(trade) ==
    LET side == IF trade.is_buy THEN "buy" ELSE "sell"
        price == trade.price
        amount == trade.quantity
        cost == IF (side = "buy" /\ trade.is_buy_order_filled)
                   \/ (side = "sell" /\ trade.is_sell_order_filled)
                THEN amount * price ELSE 0
    IN [symbol |-> crix_to_ccxt_symbol(trade.symbol_name),
        id |-> str(trade.id),
        price |-> price,
        order |-> str(trade.id),
        side |-> side,
        amount |-> amount,
        cost |-> cost,
        timestamp |-> Some(trade.created_at * 1000),
        type |-> "limit",
        fee |-> << >>,
        info |-> trade,
        takerOrMaker |-> None]

fetch_my_trades_run(symbol, since, limit, rm, r) ==
    LET pre == request_symbols(symbol, rm)
        c == Call("fetch_my_trades", [limit |-> limit, symbols |-> pre.ret], r)
        trades == [i \in 1..Len(r.data) |-> parse_trade(r.data[i])]
    IN IF pre.err # "none" THEN [pre EXCEPT !.ret = None]
       ELSE IF ~r.ok
       THEN [markets |-> pre.markets, calls |-> Append(pre.calls, c),
             err |-> "TransportError", ret |-> None]
       ELSE [markets |-> pre.markets, calls |-> Append(pre.calls, c), err |-> "none",
             ret |-> IF since # None THEN filter_array_by_since(trades, since[1])
                     ELSE trades]

TradeResponses(wide) ==
    {Fail} \cup { Ok(s) : s \in SeqUpTo(NativeTrades(wide), IF wide THEN MaxTrades ELSE 1) }
TradeSinceArgs(wide) == IF wide THEN {None, Some(0), Some(1500)} ELSE {None, Some(1500)}

fetch_my_trades(wide, timed) ==
    \E symbol \in OptSymbolArgs, since \in TradeSinceArgs(wide) :
    \E rm \in ListMarketAnswers(symbol) :
    \E r \in ListAnswers(symbol, rm, TradeResponses(wide)) :
    \E l \in {fetch_my_trades_run(symbol, since, DefaultLimit, rm, r)} :
        /\ Settle(l.calls, timed)
        /\ op' = [symbol |-> symbol, name |-> "fetch_my_trades", since |-> since]
        /\ markets' = l.markets
        /\ calls' = l.calls
        /\ err' = l.err
        /\ ret' = l.ret
        /\ UNCHANGED <<tickers, orders>>

NativeTickers(wide) ==
    [open_time : {60}, open : {2}, high : {6}, low : {1}, close : {4}, volume : {9},
     symbol_name : IF wide THEN { <<"A", "_", "C">>, <<"B", "_", "C">> }
                   ELSE { <<"A", "_", "C">> },
     prev_close_price : {3}, price_change : {1}, price_change_percent : {33}]
TickerResponses(wide) ==
    {Fail} \cup { Ok(s) : s \in SeqUpTo(NativeTickers(wide), MaxTickers) }

\* The body of the loop of fetch_tickers.  open and close are taken of one
\* parity, so that (last + open) / 2 is the integer it is here.
parse_ticker(item) ==
    LET last == item.close
    IN [symbol |-> crix_to_ccxt_symbol(item.symbol_name),
        last |-> last,
        open |-> item.open,
        high |-> item.high,
        low |-> item.low,
        close |-> item.close,
        datetime |-> item.open_time,
        timestamp |-> Some(item.open_time * 1000),
        info |-> item,
        previousClose |-> item.prev_close_price,
        change |-> item.price_change,
        percentage |-> item.price_change_percent,
        average |-> (last + item.open) \div 2,
        baseVolume |-> item.volume]

fetch_tickers_run(r) ==
    LET c == Call("fetch_ticker", None, r)
        parsed == [i \in 1..Len(r.data) |-> parse_ticker(r.data[i])]
    IN IF ~r.ok
       THEN [tickers |-> tickers, calls |-> <<c>>, err |-> "TransportError", ret |-> None]
       ELSE [tickers |-> Some(parsed), calls |-> <<c>>, err |-> "none", ret |-> parsed]

\* The loop of fetch_ticker: the first ticker of the symbol, as <<ticker>>, or
\* the empty dict {}, as << >>.
find_ticker(list, symbol) ==
    IF \E i \in 1..Len(list) : list[i].symbol = symbol
    THEN <<list[CHOOSE i \in 1..Len(list) :
                  /\ list[i].symbol = symbol
                  /\ \A j \in 1..(i - 1) : list[j].symbol # symbol]>>
    ELSE << >>

fetch_ticker_run(symbol, r) ==
    LET pre == IF tickers = None THEN fetch_tickers_run(r)
               ELSE [tickers |-> tickers, calls |-> << >>, err |-> "none", ret |-> None]
    IN IF pre.err # "none" THEN pre
       ELSE [pre EXCEPT !.ret = find_ticker(pre.tickers[1], symbol)]

fetch_tickers(wide, timed) ==
    \E r \in TickerResponses(wide) :
    \E l \in {fetch_tickers_run(r)} :
        /\ Settle(l.calls, timed)
        /\ op' = [name |-> "fetch_tickers"]
        /\ tickers' = l.tickers
        /\ calls' = l.calls
        /\ err' = l.err
        /\ ret' = l.ret
        /\ UNCHANGED <<markets, orders>>

\* The tickers call of fetch_ticker is issued only on a cache that is None.
TickerAnswers(wide) == IF tickers = None THEN TickerResponses(wide) ELSE {Fail}

fetch_ticker(wide, timed) ==
    \E symbol \in SymbolArgs, r \in TickerAnswers(wide) :
    \E l \in {fetch_ticker_run(symbol, r)} :
        /\ Settle(l.calls, timed)
        /\ op' = [symbol |-> symbol, name |-> "fetch_ticker", before |-> tickers]
        /\ tickers' = l.tickers
        /\ calls' = l.calls
        /\ err' = l.err
        /\ ret' = l.ret
        /\ UNCHANGED <<markets, orders>>

NativeLevels == { [price |-> 3, quantity |-> 5] }
NativeDepths == [asks : SeqUpTo(NativeLevels, 1), bids : SeqUpTo(NativeLevels, 1)]
DepthResponses == {Fail} \cup { Ok(d) : d \in NativeDepths }

fetch_order_book_run(symbol, now, r) ==
    LET c == Call("fetch_order_book", [symbol |-> ccxt_to_crix_symbol(symbol)], r)
        levels(side) == [i \in 1..Len(side) |-> <<side[i].price, side[i].quantity>>]
    IN IF ~r.ok THEN [calls |-> <<c>>, err |-> "TransportError", ret |-> None]
       ELSE [calls |-> <<c>>, err |-> "none",
             ret |-> [timestamp |-> now * 1000, asks |-> levels(r.data.asks),
                      bids |-> levels(r.data.bids)]]

fetch_order_book(timed) ==
    \E symbol \in SymbolArgs, now \in Nows, r \in DepthResponses :
    \E l \in {fetch_order_book_run(symbol, now, r)} :
        /\ Settle(l.calls, timed)
        /\ op' = [symbol |-> symbol, name |-> "fetch_order_book"]
        /\ calls' = l.calls
        /\ err' = l.err
        /\ ret' = l.ret
        /\ UNCHANGED <<markets, tickers, orders>>

NativeBalances == { [currency_name |-> "A", balance |-> 5, locked_balance |-> 2] }
BalanceResponses == {Fail} \cup { Ok(s) : s \in SeqUpTo(NativeBalances, 1) }

RECURSIVE build_balance(_, _)
\* The loop of fetch_balance over the response, into the dicts of acc.
build_balance(resp, acc) ==
    IF resp = << >> THEN acc
    ELSE LET item == Head(resp)
             coin == item.currency_name
             total == item.balance
             used == item.locked_balance
             free == total - used
         IN build_balance(Tail(resp),
                [acc EXCEPT
                    !.coins = DictPut(acc.coins, coin,
                                  [total |-> total, used |-> used, free |-> free]),
                    !.free = DictPut(acc.free, coin, free),
                    !.used = DictPut(acc.used, coin, used),
                    !.total = DictPut(acc.total, coin, total)])

fetch_balance_run(r) ==
    LET c == Call("fetch_balance", None, r)
    IN IF ~r.ok THEN [calls |-> <<c>>, err |-> "TransportError", ret |-> None]
       ELSE [calls |-> <<c>>, err |-> "none",
             ret |-> build_balance(r.data,
                        [info |-> r.data, total |-> << >>, used |-> << >>,
                         free |-> << >>, coins |-> << >>])]

fetch_balance(timed) ==
    \E r \in BalanceResponses :
    \E l \in {fetch_balance_run(r)} :
        /\ Settle(l.calls, timed)
        /\ op' = [name |-> "fetch_balance"]
        /\ calls' = l.calls
        /\ err' = l.err
        /\ ret' = l.ret
        /\ UNCHANGED <<markets, tickers, orders>>

----------------------------------------------------------------------------

Init ==
    /\ markets = None
    /\ tickers = None
    /\ orders = << >>
    /\ op = [name |-> "init"]
    /\ calls = << >>
    /\ err = "none"
    /\ ret = None
    /\ lastRestRequestTimestamp = 0
    /\ clock = ClockStart
    /\ throttled = << >>
    /\ failed = None

NextMarkets ==
    \/ load_markets(TRUE, FALSE)
    \/ fetch_markets(TRUE, FALSE)
    \/ fetch_ohlcv(TRUE, FALSE)

SpecMarkets == Init /\ [][NextMarkets]_vars

\* The market cache: the operations that fill and read it on the larger
\* inputs, and fetch_ohlcv, which fills it when it is empty, on the smaller.
NextCache ==
    \/ load_markets(TRUE, FALSE)
    \/ fetch_markets(TRUE, FALSE)
    \/ fetch_ohlcv(FALSE, FALSE)

SpecCache == Init /\ [][NextCache]_vars

NextOrders ==
    \/ fetch_open_orders(TRUE, FALSE)
    \/ fetch_closed_orders(TRUE, FALSE)
    \/ fetch_orders(TRUE, FALSE)
    \/ fetch_order(TRUE, FALSE)
    \/ cancel_order(TRUE, FALSE)
    \/ create_order(TRUE, FALSE)

SpecOrders == Init /\ [][NextOrders]_vars

NextReads ==
    \/ fetch_my_trades(TRUE, FALSE)
    \/ fetch_tickers(TRUE, FALSE)
    \/ fetch_ticker(TRUE, FALSE)
    \/ fetch_order_book(FALSE)
    \/ fetch_balance(FALSE)

SpecReads == Init /\ [][NextReads]_vars

\* Every public operation against every other, on the smaller inputs.
Next ==
    \/ load_markets(FALSE, FALSE)
    \/ fetch_markets(FALSE, FALSE)
    \/ fetch_ohlcv(FALSE, FALSE)
    \/ fetch_order_book(FALSE)
    \/ fetch_tickers(FALSE, FALSE)
    \/ fetch_ticker(FALSE, FALSE)
    \/ fetch_balance(FALSE)
    \/ create_order(FALSE, FALSE)
    \/ cancel_order(FALSE, FALSE)
    \/ fetch_open_orders(FALSE, FALSE)
    \/ fetch_closed_orders(FALSE, FALSE)
    \/ fetch_order(FALSE, FALSE)
    \/ fetch_orders(FALSE, FALSE)
    \/ fetch_my_trades(FALSE, FALSE)

Spec == Init /\ [][Next]_vars

\* The operations that call the transport once, and fetch_ohlcv, which calls
\* it twice on an empty cache, under a clock that runs.
NextThrottle ==
    \/ load_markets(FALSE, TRUE)
    \/ fetch_markets(FALSE, TRUE)
    \/ fetch_ohlcv(FALSE, TRUE)
    \/ fetch_tickers(FALSE, TRUE)

SpecThrottle == Init /\ [][NextThrottle]_vars

----------------------------------------------------------------------------
(* The symbol translators on their own: a symbol is drawn, translated to    *)
(* the native notation and back.                                           *)

SymbolChars == {"A", "B", "/", "_"}
SymbolInputs == SeqUpTo(SymbolChars, MaxSymbolLen)

InitSymbol ==
    /\ markets = None
    /\ tickers = None
    /\ orders = << >>
    /\ \E s \in SymbolInputs : op = [symbol |-> s, name |-> "symbol"]
    /\ calls = << >>
    /\ err = "none"
    /\ ret = None
    /\ lastRestRequestTimestamp = 0
    /\ clock = ClockStart
    /\ throttled = << >>
    /\ failed = None

to_native ==
    /\ op.name = "symbol"
    /\ op' = [symbol |-> op.symbol, name |-> "ccxt_to_crix_symbol"]
    /\ ret' = ccxt_to_crix_symbol(op.symbol)
    /\ UNCHANGED <<markets, tickers, orders, calls, err,
                   lastRestRequestTimestamp, clock, throttled, failed>>

to_normalized ==
    /\ op.name = "ccxt_to_crix_symbol"
    /\ op' = [symbol |-> op.symbol, name |-> "crix_to_ccxt_symbol", native |-> ret]
    /\ ret' = crix_to_ccxt_symbol(ret)
    /\ UNCHANGED <<markets, tickers, orders, calls, err,
                   lastRestRequestTimestamp, clock, throttled, failed>>

NextSymbol ==
    \/ to_native
    \/ to_normalized

SpecSymbol == InitSymbol /\ [][NextSymbol]_vars

----------------------------------------------------------------------------
(* The claims.  What the formulas read of the operation that ran last. *)

LastCall == calls[Len(calls)]
Issued(ep) == \E i \in 1..Len(calls) : calls[i].ep = ep
SomeCallFailed == \E i \in 1..Len(calls) : ~calls[i].ok

ParseOps ==
    {"fetch_order", "cancel_order", "fetch_open_orders", "fetch_closed_orders", "fetch_orders"}
OneOrderOps == {"fetch_order", "cancel_order"}
\* The operation's own call was answered: its orders went to parse_order.
OrdersHanded == op.name \in ParseOps /\ calls # << >> /\ LastCall.ep = op.name /\ LastCall.ok
HandedOrders == IF op.name \in OneOrderOps THEN <<LastCall.resp>> ELSE LastCall.resp
\* The order records an operation returned.
ReturnedOrders == IF op.name \in OneOrderOps THEN <<ret>> ELSE ret
StatusName(n) == CASE n = 0 -> "open" [] n = 1 -> "closed" [] n = 2 -> "canceled"

\* C1: every native order handed to parse_order by fetch_order, cancel_order,
\* fetch_open_orders, fetch_closed_orders or fetch_orders has its status 0, 1, 2
\* returned as 'open', 'closed', 'canceled', and a status outside {0,1,2} makes
\* the operation fail with an UnknownOrderStatus error.
C1_StatusMapping ==
    OrdersHanded =>
        IF \A i \in 1..Len(HandedOrders) : HandedOrders[i].status \in {0, 1, 2}
        THEN /\ err = "none"
             /\ \A i \in 1..Len(ReturnedOrders) :
                    ReturnedOrders[i].status = StatusName(ReturnedOrders[i].info.status)
        ELSE err = "UnknownOrderStatus"

\* C2: every order record returned by an order operation carries 'remaining'
\* equal to amount - filled and 'cost' equal to filled * price.
C2_DerivedFields ==
    (op.name \in ParseOps /\ err = "none") =>
        \A i \in 1..Len(ReturnedOrders) :
            LET rec == ReturnedOrders[i]
            IN /\ "remaining" \in DOMAIN rec
               /\ rec.remaining = rec.info.quantity - rec.info.filled_quantity
               /\ "cost" \in DOMAIN rec
               /\ rec.cost = rec.info.filled_quantity * rec.info.price

\* The page sizes of the claim.
C3_ValidSet == {1, 5, 10, 20, 50, 100, 500, 1000}
C3_Case ==
    op.name = "fetch_ohlcv" /\ op.timeframe \in timeframes /\ op.limit \notin C3_ValidSet

\* C3 as stated: fetch_ohlcv with a supported timeframe and a limit outside
\* {1,5,10,20,50,100,500,1000} returns an empty sequence, raises no error and
\* issues no candle call, whatever the market cache holds.
C3_SoftFailAlways ==
    C3_Case => (err = "none" /\ ret = << >> /\ ~Issued("fetch_ohlcv"))

\* C3, amended: such a call issues no candle call, and it returns an empty
\* sequence without an error unless the markets call it issued on an empty
\* cache failed, whose TransportError it raises.
C3_SoftFail ==
    C3_Case =>
        /\ ~Issued("fetch_ohlcv")
        /\ IF SomeCallFailed THEN err = "TransportError"
           ELSE err = "none" /\ ret = << >>

\* An invalid limit on an empty cache: the markets are loaded, nothing else is
\* asked, and the empty sequence is returned.
C3_Witness ==
    /\ C3_Case
    /\ Len(calls) = 1 /\ LastCall.ep = "fetch_markets" /\ LastCall.ok
    /\ err = "none" /\ ret = << >>

\* C4: without a start time, the start time fetch_ohlcv derives and sends is
\* now minus exactly timeframe minutes * limit minutes.
C4_StartTime ==
    (op.name = "fetch_ohlcv" /\ op.since = None /\ Issued("fetch_ohlcv")) =>
        LastCall.arg.since = op.now - (timeframe_minutes(op.timeframe) * op.limit) * 60

\* The trades fetch_my_trades parsed, before the filter.
ParsedTrades == [i \in 1..Len(LastCall.resp) |-> parse_trade(LastCall.resp[i])]

\* C5: filter_by_since returns exactly the records that have no timestamp or
\* a timestamp >= since, in their order; none whose timestamp is < since.
C5_FilterBySince ==
    (op.name = "fetch_my_trades" /\ err = "none" /\ op.since # None) =>
        ret = SelectSeq(ParsedTrades,
                  LAMBDA t : t.timestamp = None \/ t.timestamp[1] >= op.since[1])

Count(s, c) == Cardinality({ i \in 1..Len(s) : s[i] = c })
RoundTripped == op.name = "crix_to_ccxt_symbol"

\* C6 as stated: every symbol with exactly one '/' is what its translation to
\* the native notation and back gives, also with a '_' in an asset code.
C6_RoundTripAny ==
    (RoundTripped /\ Count(op.symbol, "/") = 1) => ret = op.symbol

\* C6, amended: every symbol with exactly one '/' and no '_' is what its
\* translation to the native notation and back gives.
C6_RoundTrip ==
    (RoundTripped /\ Count(op.symbol, "/") = 1 /\ Count(op.symbol, "_") = 0)
        => (ret = op.symbol /\ op.native # op.symbol /\ Count(op.native, "/") = 0)

C6_Witness ==
    /\ RoundTripped
    /\ op.symbol = <<"A", "/", "B">>
    /\ op.native = <<"A", "_", "B">>
    /\ ret = <<"A", "/", "B">>

\* C7: fetch_ohlcv with a timeframe outside the mapping fails with
\* UnsupportedTimeframe before any transport call, also on an empty cache.
C7_FailsFast ==
    (op.name = "fetch_ohlcv" /\ op.timeframe \notin timeframes) =>
        (err = "UnsupportedTimeframe" /\ calls = << >>)

\* C8 as stated: every operation issues at most one transport call.
C8_AtMostOneCall == Len(calls) <= 1

\* C8, amended: every operation issues at most two transport calls, and two
\* only as the markets call, answered, that fetch_ohlcv or a list operation
\* without a symbol issues on an empty cache, then its own call.
C8_AtMostTwoCalls ==
    /\ Len(calls) <= 2
    /\ Len(calls) = 2 =>
        /\ calls[1].ep = "fetch_markets" /\ calls[1].ok
        /\ calls[2].ep = op.name
        /\ op.name \in {"fetch_ohlcv", "fetch_open_orders", "fetch_closed_orders",
                        "fetch_orders", "fetch_my_trades"}
        /\ op.name # "fetch_ohlcv" => op.symbol = None

C8_Witness ==
    /\ op.name = "fetch_open_orders" /\ op.symbol = None
    /\ Len(calls) = 2 /\ calls[2].ok /\ err = "none"

ResponseSymbols(resp) == { resp[i].base \o <<"/">> \o resp[i].quote : i \in 1..Len(resp) }

\* C10: every load_markets issues one markets call, and on success the cache
\* holds exactly the markets of the response, each under base + '/' + quote
\* with its 'symbol' that key: nothing of the cache before is left.
C10_LoadReplaces ==
    op.name = "load_markets" =>
        /\ Len(calls) = 1 /\ calls[1].ep = "fetch_markets"
        /\ calls[1].ok =>
            /\ err = "none" /\ markets # None
            /\ { markets[1][i].k : i \in 1..Len(markets[1]) } = ResponseSymbols(calls[1].resp)
            /\ \A i, j \in 1..Len(markets[1]) : markets[1][i].k = markets[1][j].k => i = j
            /\ \A i \in 1..Len(markets[1]) :
                LET e == markets[1][i]
                IN /\ e.v.symbol = e.k
                   /\ e.k = e.v.base \o <<"/">> \o e.v.quote
                   /\ \E n \in 1..Len(calls[1].resp) :
                        /\ calls[1].resp[n].base = e.v.base
                        /\ calls[1].resp[n].quote = e.v.quote
                        /\ calls[1].resp[n].name = e.v.id

\* A load on a cache of two markets that is answered one market, which is
\* all the cache then holds.
C10_Witness ==
    /\ op.name = "load_markets" /\ calls[1].ok
    /\ op.before # None /\ Len(op.before[1]) = 2
    /\ Len(calls[1].resp) = 1 /\ Len(markets[1]) = 1
    /\ markets[1][1].k = <<"B", "/", "C">>

\* C11: after fetch_open_orders returns, the order map holds under the id of
\* every order of the response the record this fetch made of it, added if the
\* id was absent and replaced if it was there.
C11_MapTracksFetch ==
    (op.name = "fetch_open_orders" /\ err = "none") =>
        \A i \in 1..Len(LastCall.resp) :
            \E j \in 1..Len(orders) :
                /\ orders[j].k = str(LastCall.resp[i].id)
                /\ orders[j].v = parse_order(LastCall.resp[i]).rec

\* C12: cancel_order with a symbol issues the cancel call whether the id is
\* tracked or not, an answer with an order of a known status is no error in
\* either case, and once it returns the id of the canceled order is not in
\* the order map and every other entry is as it was.
C12_CancelRemoves ==
    (op.name = "cancel_order" /\ op.symbol # None) =>
        /\ Len(calls) = 1 /\ calls[1].ep = "cancel_order"
        /\ (calls[1].ok /\ calls[1].resp.status \in {0, 1, 2}) => err = "none"
        /\ err = "none" =>
            /\ ~HasKey(orders, ret.id)
            /\ orders = SelectSeq(op.before, LAMBDA e : e.k # ret.id)

\* A cancel of one of two tracked orders: the other stays.
C12_Witness ==
    /\ op.name = "cancel_order" /\ err = "none"
    /\ Len(op.before) = 2 /\ HasKey(op.before, ret.id)
    /\ Len(orders) = 1 /\ orders[1].k # ret.id

\* The cache that fetch_ticker found holds a ticker of the symbol asked for.
CachedTicker ==
    op.before # None /\ \E i \in 1..Len(op.before[1]) : op.before[1][i].symbol = op.symbol

\* C14: a fetch_tickers that is answered makes the cache the snapshot it
\* fetched; fetch_ticker returns the cached ticker of the symbol without a
\* transport call when the cache holds one, and issues the tickers call
\* whenever it holds none, be the cache unset or the symbol missing from it.
C14_TickerCache ==
    /\ (op.name = "fetch_tickers" /\ err = "none") =>
            /\ tickers = Some([i \in 1..Len(LastCall.resp) |-> parse_ticker(LastCall.resp[i])])
            /\ ret = tickers[1]
    /\ op.name = "fetch_ticker" =>
            IF CachedTicker
            THEN /\ calls = << >> /\ err = "none" /\ tickers = op.before
                 /\ ret # << >> /\ ret[1].symbol = op.symbol
                 /\ \E i \in 1..Len(tickers[1]) : tickers[1][i] = ret[1]
            ELSE Len(calls) = 1 /\ calls[1].ep = "fetch_ticker"

\* C15: fetch_ohlcv with a supported timeframe, a valid limit and a since
\* that converts neither as seconds nor as milliseconds returns an empty
\* sequence, raises nothing and issues no candle call.
C15_UnparseableSince ==
    (/\ op.name = "fetch_ohlcv" /\ op.timeframe \in timeframes /\ op.limit \in C3_ValidSet
     /\ op.since # None /\ ~SomeCallFailed
     /\ ~fromtimestamp_ok(op.since[1]) /\ ~fromtimestamp_ok(op.since[1] \div 1000))
        => (err = "none" /\ ret = << >> /\ ~Issued("fetch_ohlcv"))

\* C13: with the rate limit enabled a throttle that finds e elapsed since
\* the last request sleeps exactly rateLimit - e when e < rateLimit and does
\* not sleep when e >= rateLimit, e and rateLimit in one unit (milliseconds),
\* so that a call starts at least rateLimit after the request before it and
\* is never delayed by more than rateLimit; with it disabled nothing sleeps.
C13_Throttle ==
    \A i \in 1..Len(throttled) :
        LET t == throttled[i]
            e == t.now - t.last
        IN IF enableRateLimit
           THEN /\ t.slept = (IF e < rateLimit THEN rateLimit - e ELSE 0)
                /\ e + t.slept >= rateLimit
                /\ t.slept <= rateLimit
           ELSE t.slept = 0

\* C16: when a transport call of an operation fails, it is the last call the
\* operation issued and no call is issued twice, the operation raises the
\* transport's error, and the market cache, the ticker cache, the order map
\* and the timestamp are what they were just before that call: what the
\* operation started from or, of an operation that loaded the markets
\* first, what that load left.
C16_FailurePropagates ==
    SomeCallFailed =>
        /\ err = "TransportError"
        /\ ~LastCall.ok
        /\ \A i \in 1..(Len(calls) - 1) : calls[i].ok /\ calls[i].ep # LastCall.ep
        /\ failed # None
        /\ tickers = failed[1].tickers
        /\ orders = failed[1].orders
        /\ IF Len(calls) = 1
           THEN /\ markets = failed[1].markets
                /\ lastRestRequestTimestamp = failed[1].lastRestRequestTimestamp
           ELSE /\ markets = Some(build_markets(calls[1].resp, << >>))
                /\ lastRestRequestTimestamp = throttled[1].stamp[1]

\* A fetch_ohlcv on a fresh adapter whose markets call is answered and whose
\* candle call fails: the markets and the timestamp of the first call stay.
C16_Witness ==
    /\ op.name = "fetch_ohlcv" /\ Len(calls) = 2 /\ ~calls[2].ok
    /\ err = "TransportError"
    /\ failed # None /\ failed[1].markets = None /\ markets # None
    /\ failed[1].lastRestRequestTimestamp = 0
    /\ lastRestRequestTimestamp = ClockStart

====
